---- MODULE Spec2Model ----
(***************************************************************************)
(* Model of src/app.py, the Streamlit "Gemini Step-by-Step PDF App".       *)
(*                                                                         *)
(* The script is re-run from top to bottom on every user interaction; what *)
(* survives between runs is st.session_state (chat_session and the three   *)
(* stepN_result slots) and the sidebar widgets (api_key, uploaded_file,    *)
(* debug_mode).  One action of the model is one run of the script with at  *)
(* most one button pressed.  The only place a run can block is the         *)
(* document poll loop of init_gemini, so a run that has to initialise a    *)
(* session is split there: the handler up to upload_file, one step per     *)
(* poll, and the remainder of the handler once the loop has been left.     *)
(*                                                                         *)
(* A text is a sequence of tokens (strings); the empty text is <<>>.       *)
(* Python's None is the empty tuple, a present value x is <<x>>.           *)
(***************************************************************************)
EXTENDS Naturals, Sequences, FiniteSets

VARIABLES
    api_key,        \* sidebar text input: "" or a key
    uploaded_file,  \* sidebar file uploader: None or Some(document)
    debug_mode,     \* sidebar toggle: TRUE = Manual, FALSE = Automatic
    chat_session,   \* st.session_state.chat_session
    step1_result,   \* st.session_state.step1_result
    step2_result,   \* st.session_state.step2_result
    step3_result,   \* st.session_state.step3_result
    nsessions,      \* remote service: number of conversations started so far
    created,        \* conversations started since the last reset
    pc,             \* position of the running script: "idle" or "init"
    docState,       \* uploaded_doc.state.name while inside init_gemini
    action,         \* which button this script run handled
    prompt,         \* the prompt text the handler of this run was given
    outcome,        \* how the handler of this run ended
    events,         \* remote calls made by this run, in order
    entry           \* session state at the start of this run

store == <<chat_session, step1_result, step2_result, step3_result>>
results == <<step1_result, step2_result, step3_result>>
inputs == <<api_key, uploaded_file, debug_mode>>
vars == <<api_key, uploaded_file, debug_mode, chat_session, step1_result,
          step2_result, step3_result, nsessions, created, pc, docState, action,
          prompt, outcome, events, entry>>

-----------------------------------------------------------------------------
(* Bounds of the model *)

\* how many conversations the remote service may start in one behaviour
MaxSessions == 2

-----------------------------------------------------------------------------
(* Values *)

None == <<>>
Some(x) == <<x>>

\* Python truthiness of a result slot: None and "" are falsy
Truthy(slot) == slot # None /\ Len(slot[1]) > 0

Docs == {"d1", "d2"}
ApiKeys == {"", "key"}

\* texts response.text can hold, the empty text included
Texts == {<<>>, <<"a">>, <<"b">>}

\* what one send_message + response.text can do: raise (None) or give a text
Replies == {None} \cup {Some(t) : t \in Texts}

\* file states the remote service reports for an uploaded document
\* (ACTIVE is the state the spec calls READY)
DocStates == {"PROCESSING", "ACTIVE", "FAILED"}

default_p1 == <<"default_p1">>
default_p2 == <<"default_p2">>
default_p3 == <<"default_p3">>

\* the text areas hold the default prompt or a text the user typed
Prompts1 == {default_p1, <<"edited_p1">>}
Prompts2 == {default_p2, <<"edited_p2">>}
Prompts3 == {default_p3, <<"edited_p3">>}

NoPrompt == <<>>

\* the conversation model.start_chat returns, seeded with the uploaded document
Session(id, doc, state) == [id |-> id, doc |-> doc, docState |-> state]

\* a remote call of a run; reply is what a send_message call gave (see Replies)
InitEv(doc) ==
    [kind |-> "init", sid |-> 0, doc |-> doc, msg |-> <<>>, reply |-> <<>>]
SendEv(sess, msg, reply) ==
    [kind |-> "send", sid |-> sess[1].id, doc |-> sess[1].doc, msg |-> msg,
     reply |-> reply]

Snapshot == [chat_session |-> chat_session, step1_result |-> step1_result,
             step2_result |-> step2_result, step3_result |-> step3_result]

\* an f-string placeholder formats its value with str()
Fmt(slot) == IF slot = None THEN <<"None">> ELSE slot[1]

-----------------------------------------------------------------------------
(* Step 3 message templates *)

Step1Label == "=== START STEP 1 OUTPUT ==="
Step2Label == "=== START STEP 2 OUTPUT ==="
InstructionLabel == "=== INSTRUCTION ==="

\* Automatic mode, one token per template line (indentation not modelled)
AutoFinalInput(r1, r2, p3) ==
    <<"You are now in the Final Compilation step.", Step1Label>> \o Fmt(r1)
        \o <<Step2Label>> \o Fmt(r2) \o <<InstructionLabel>> \o p3

\* Manual mode
ManualFinalInput(r1, r2, p3) ==
    <<"Previous outputs:">> \o Fmt(r1) \o Fmt(r2) \o <<"Instruction:">> \o p3

-----------------------------------------------------------------------------
(* Initial state: the script's first run, nothing pressed *)

Init ==
    /\ api_key = ""
    /\ uploaded_file = None
    /\ debug_mode = TRUE
    /\ chat_session = None
    /\ step1_result = None
    /\ step2_result = None
    /\ step3_result = None
    /\ nsessions = 0
    /\ created = 0
    /\ pc = "idle"
    /\ docState = "none"
    /\ action = "none"
    /\ prompt = NoPrompt
    /\ outcome = "none"
    /\ events = <<>>
    /\ entry = [chat_session |-> None, step1_result |-> None,
                step2_result |-> None, step3_result |-> None]

\* a script run begins: what it is, and the state it found
Begin(a, p) ==
    /\ action' = a
    /\ prompt' = p
    /\ entry' = Snapshot

\* a script run ends
End(o, evs) ==
    /\ outcome' = o
    /\ events' = evs
    /\ pc' = "idle"
    /\ docState' = "none"

-----------------------------------------------------------------------------
(* init_gemini *)

\* init_gemini up to and including genai.upload_file: the call raises (the
\* except clause reports "Connection Error" and None is returned and stored),
\* or the document comes back in some state and the poll loop is entered
InitGeminiStart ==
    /\ nsessions < MaxSessions
    /\ UNCHANGED <<inputs, results, nsessions, created>>
    /\ LET evs == <<InitEv(uploaded_file[1])>> IN
       \/ /\ chat_session' = None
          /\ End("ConnectionError", evs)
       \/ \E s \in DocStates :
            /\ pc' = "init"
            /\ docState' = s
            /\ outcome' = "running"
            /\ events' = evs
            /\ UNCHANGED chat_session

\* a loop that waits for ACTIVE instead of waiting while PROCESSING
NotYetActive == docState # "ACTIVE"

\* the loop condition: uploaded_doc.state.name == "PROCESSING"
StillProcessing == docState = "PROCESSING"

\* one turn of the poll loop: sleep, then genai.get_file gives the state anew,
\* or raises
InitGeminiPoll ==
    /\ pc = "init"
    /\ StillProcessing
    /\ UNCHANGED <<inputs, results, nsessions, created, action, prompt, entry>>
    /\ \/ \E s \in DocStates :
            /\ docState' = s
            /\ outcome' = "polled"
            /\ UNCHANGED <<chat_session, pc, events>>
       \/ /\ chat_session' = None
          /\ End("ConnectionError", events)

\* the value init_gemini returns once the loop is left: model.start_chat on the
\* uploaded document, whatever state other than PROCESSING it is in
StartChat == Some(Session(nsessions + 1, uploaded_file[1], docState))

-----------------------------------------------------------------------------
(* Handler bodies from the point where chat_session has been looked up or    *)
(* assigned: sess is the value stored, evs the remote calls made so far      *)

\* a Step 1 / Step 2 message that prepends the stored Step 1 result
ContinuationInputWithContext(p) == Fmt(step1_result) \o p

\* the message of Step 1 and of Step 2: send_message is given the prompt itself
ContinuationInput(p) == p

\* a Step 1 that sends once more when send_message raised
Step1SendRetries(sess, evs, p) ==
    /\ chat_session' = sess
    /\ IF sess = None
       THEN /\ End("ConnectionError", evs)
            /\ UNCHANGED results
       ELSE \E reply, again \in Replies :
            LET sent == Append(evs, SendEv(sess, ContinuationInput(p), reply))
                resent == Append(sent, SendEv(sess, ContinuationInput(p), again))
            IN
            IF reply = None /\ again = None
            THEN /\ End("SendError", resent)
                 /\ UNCHANGED results
            ELSE IF reply = None
            THEN /\ step1_result' = again
                 /\ UNCHANGED <<step2_result, step3_result>>
                 /\ End("ok", resent)
            ELSE /\ again = None
                 /\ step1_result' = reply
                 /\ UNCHANGED <<step2_result, step3_result>>
                 /\ End("ok", sent)

\* a Step 1 that drops the old result before it sends
Step1SendClearsFirst(sess, evs, p) ==
    /\ chat_session' = sess
    /\ IF sess = None
       THEN /\ End("ConnectionError", evs)
            /\ UNCHANGED results
       ELSE \E reply \in Replies :
            LET sent == Append(evs, SendEv(sess, ContinuationInput(p), reply))
            IN
            IF reply = None
            THEN /\ End("SendError", sent)
                 /\ step1_result' = None
                 /\ UNCHANGED <<step2_result, step3_result>>
            ELSE /\ step1_result' = reply
                 /\ UNCHANGED <<step2_result, step3_result>>
                 /\ End("ok", sent)

\* Manual Step 1
Step1Send(sess, evs, p) ==
    /\ chat_session' = sess
    /\ IF sess = None
       THEN /\ End("ConnectionError", evs)
            /\ UNCHANGED results
       ELSE \E reply \in Replies :
            LET sent == Append(evs, SendEv(sess, ContinuationInput(p), reply))
            IN
            IF reply = None
            THEN /\ End("SendError", sent)
                 /\ UNCHANGED results
            ELSE /\ step1_result' = reply
                 /\ UNCHANGED <<step2_result, step3_result>>
                 /\ End("ok", sent)

\* a full chain that stores the Step 1 and Step 2 replies in each other's slot
ChainSendSwapsSlots(sess, evs) ==
    /\ chat_session' = sess
    /\ IF sess = None
       THEN /\ End("ConnectionError", evs)
            /\ UNCHANGED results
       ELSE \E reply1, reply2, reply3 \in Replies :
            LET sent1 == Append(evs, SendEv(sess, ContinuationInput(default_p1),
                                            reply1))
                sent2 == Append(sent1, SendEv(sess, ContinuationInput(default_p2),
                                              reply2))
                final_input == AutoFinalInput(reply1, reply2, default_p3)
                sent3 == Append(sent2, SendEv(sess, final_input, reply3))
            IN
            IF reply1 = None
            THEN /\ reply2 = None /\ reply3 = None
                 /\ End("SendError", sent1)
                 /\ UNCHANGED results
            ELSE IF reply2 = None
            THEN /\ reply3 = None
                 /\ step1_result' = reply1
                 /\ End("SendError", sent2)
                 /\ UNCHANGED <<step2_result, step3_result>>
            ELSE IF reply3 = None
            THEN /\ step1_result' = reply2
                 /\ step2_result' = reply1
                 /\ End("SendError", sent3)
                 /\ UNCHANGED step3_result
            ELSE /\ step1_result' = reply2
                 /\ step2_result' = reply1
                 /\ step3_result' = reply3
                 /\ End("ok", sent3)

\* Automatic: the three steps back to back; the first send_message that raises
\* ends the run with what was stored before it
ChainSend(sess, evs) ==
    /\ chat_session' = sess
    /\ IF sess = None
       THEN /\ End("ConnectionError", evs)
            /\ UNCHANGED results
       ELSE \E reply1, reply2, reply3 \in Replies :
            LET sent1 == Append(evs, SendEv(sess, ContinuationInput(default_p1),
                                            reply1))
                sent2 == Append(sent1, SendEv(sess, ContinuationInput(default_p2),
                                              reply2))
                final_input == AutoFinalInput(reply1, reply2, default_p3)
                sent3 == Append(sent2, SendEv(sess, final_input, reply3))
            IN
            IF reply1 = None
            THEN /\ reply2 = None /\ reply3 = None
                 /\ End("SendError", sent1)
                 /\ UNCHANGED results
            ELSE IF reply2 = None
            THEN /\ reply3 = None
                 /\ step1_result' = reply1
                 /\ End("SendError", sent2)
                 /\ UNCHANGED <<step2_result, step3_result>>
            ELSE IF reply3 = None
            THEN /\ step1_result' = reply1
                 /\ step2_result' = reply2
                 /\ End("SendError", sent3)
                 /\ UNCHANGED step3_result
            ELSE /\ step1_result' = reply1
                 /\ step2_result' = reply2
                 /\ step3_result' = reply3
                 /\ End("ok", sent3)

\* init_gemini returns a conversation and the suspended handler goes on
InitGeminiReturn ==
    /\ pc = "init"
    /\ ~StillProcessing
    /\ nsessions' = nsessions + 1
    /\ created' = created + 1
    /\ UNCHANGED <<inputs, action, prompt, entry>>
    /\ IF action = "step1"
       THEN Step1Send(StartChat, events, prompt)
       ELSE ChainSend(StartChat, events)

-----------------------------------------------------------------------------
(* Button handlers *)

HasKeyAndFile == api_key # "" /\ uploaded_file # None

\* a handler that initialises a session on every run
NoSessionAlways == TRUE

\* "if not st.session_state.chat_session": a conversation object is truthy
NoSession == chat_session = None

\* "Run Step 1" (Manual)
RunStep1(p) ==
    /\ pc = "idle"
    /\ debug_mode
    /\ Begin("step1", p)
    /\ IF ~HasKeyAndFile
       THEN /\ End("SessionUnavailable", <<>>)
            /\ UNCHANGED <<inputs, store, nsessions, created>>
       ELSE IF NoSession
       THEN InitGeminiStart
       ELSE /\ Step1Send(chat_session, <<>>, p)
            /\ UNCHANGED <<inputs, nsessions, created>>

\* the check that Step 3 tests step1_result instead of step2_result
Step3BlockedOnStep1 == ~Truthy(step1_result)

\* a Step 2 handler with no prerequisite check
Step2NeverBlocked == FALSE

\* "Run Step 1 first!"
Step2Blocked == ~Truthy(step1_result)

\* "Run Step 2 first!"
Step3Blocked == ~Truthy(step2_result)

\* "Run Step 2" (Manual)
RunStep2(p) ==
    /\ pc = "idle"
    /\ debug_mode
    /\ Begin("step2", p)
    /\ UNCHANGED <<inputs, nsessions, created, chat_session, step1_result, step3_result>>
    /\ IF Step2Blocked
       THEN /\ End("PrerequisiteMissing", <<>>)
            /\ UNCHANGED step2_result
       ELSE IF chat_session = None
       THEN \* None has no send_message: the attribute lookup raises
            /\ End("SendError", <<>>)
            /\ UNCHANGED step2_result
       ELSE \E reply \in Replies :
            LET sent == <<SendEv(chat_session, ContinuationInput(p), reply)>> IN
            IF reply = None
            THEN /\ End("SendError", sent)
                 /\ UNCHANGED step2_result
            ELSE /\ step2_result' = reply
                 /\ End("ok", sent)

\* "Run Step 3" (Manual)
RunStep3(p) ==
    /\ pc = "idle"
    /\ debug_mode
    /\ Begin("step3", p)
    /\ UNCHANGED <<inputs, nsessions, created, chat_session, step1_result, step2_result>>
    /\ IF Step3Blocked
       THEN /\ End("PrerequisiteMissing", <<>>)
            /\ UNCHANGED step3_result
       ELSE IF chat_session = None
       THEN /\ End("SendError", <<>>)
            /\ UNCHANGED step3_result
       ELSE \E reply \in Replies :
            LET final_input == ManualFinalInput(step1_result, step2_result, p)
                sent == <<SendEv(chat_session, final_input, reply)>>
            IN
            IF reply = None
            THEN /\ End("SendError", sent)
                 /\ UNCHANGED step3_result
            ELSE /\ step3_result' = reply
                 /\ End("ok", sent)

\* "Run Full Chain" (Automatic)
RunFullChain ==
    /\ pc = "idle"
    /\ ~debug_mode
    /\ Begin("chain", NoPrompt)
    /\ IF ~HasKeyAndFile
       THEN /\ End("SessionUnavailable", <<>>)
            /\ UNCHANGED <<inputs, store, nsessions, created>>
       ELSE IF NoSession
       THEN InitGeminiStart
       ELSE /\ ChainSend(chat_session, <<>>)
            /\ UNCHANGED <<inputs, nsessions, created>>

\* a reset that drops the conversation and keeps the results
ResetChainKeepsResults ==
    /\ pc = "idle"
    /\ Begin("reset", NoPrompt)
    /\ chat_session' = None
    /\ created' = 0
    /\ End("none", <<>>)
    /\ UNCHANGED <<inputs, nsessions, results>>

\* a reset that clears the results and keeps the conversation
ResetChainKeepsSession ==
    /\ pc = "idle"
    /\ Begin("reset", NoPrompt)
    /\ step1_result' = None
    /\ step2_result' = None
    /\ step3_result' = None
    /\ created' = 0
    /\ End("none", <<>>)
    /\ UNCHANGED <<inputs, nsessions, chat_session>>

\* "Reset Chain": st.session_state.clear(), then the rerun restores the defaults
ResetChain ==
    /\ pc = "idle"
    /\ Begin("reset", NoPrompt)
    /\ chat_session' = None
    /\ step1_result' = None
    /\ step2_result' = None
    /\ step3_result' = None
    /\ created' = 0
    /\ End("none", <<>>)
    /\ UNCHANGED <<inputs, nsessions>>

-----------------------------------------------------------------------------
(* Sidebar inputs: each change re-runs the script with no button pressed *)

SetApiKey(k) ==
    /\ pc = "idle"
    /\ k # api_key
    /\ api_key' = k
    /\ Begin("input", NoPrompt)
    /\ End("none", <<>>)
    /\ UNCHANGED <<uploaded_file, debug_mode, store, nsessions, created>>

UploadFile(f) ==
    /\ pc = "idle"
    /\ f # uploaded_file
    /\ uploaded_file' = f
    /\ Begin("input", NoPrompt)
    /\ End("none", <<>>)
    /\ UNCHANGED <<api_key, debug_mode, store, nsessions, created>>

ToggleMode ==
    /\ pc = "idle"
    /\ debug_mode' = ~debug_mode
    /\ Begin("toggle", NoPrompt)
    /\ End("none", <<>>)
    /\ UNCHANGED <<api_key, uploaded_file, store, nsessions, created>>

-----------------------------------------------------------------------------

Next ==
    \/ \E k \in ApiKeys : SetApiKey(k)
    \/ \E f \in {None} \cup {Some(d) : d \in Docs} : UploadFile(f)
    \/ ToggleMode
    \/ ResetChain
    \/ \E p \in Prompts1 : RunStep1(p)
    \/ \E p \in Prompts2 : RunStep2(p)
    \/ \E p \in Prompts3 : RunStep3(p)
    \/ RunFullChain
    \/ InitGeminiPoll
    \/ InitGeminiReturn

Spec == Init /\ [][Next]_vars

\* The remote service does not answer PROCESSING for ever (a poll that changes
\* nothing is a stuttering step, so a fair poll is one that sees another state
\* or raises), and the script goes on once the loop has been left.
FairSpec == Spec /\ WF_vars(InitGeminiPoll) /\ WF_vars(InitGeminiReturn)

-----------------------------------------------------------------------------
(* Reading a run *)

\* the send_message calls of this run
Sends == SelectSeq(events, LAMBDA e : e.kind = "send")

AllAbsent ==
    /\ chat_session = None
    /\ step1_result = None
    /\ step2_result = None
    /\ step3_result = None

\* this run got as far as sending the Step 3 message
Step3Sent ==
    \/ action = "step3" /\ Len(Sends) = 1
    \/ action = "chain" /\ Len(Sends) = 3

Step3Message == Sends[Len(Sends)].msg

\* the Step 3 instruction of this run
Step3Prompt == IF action = "step3" THEN prompt ELSE default_p3

\* Step 1 of this run stored a result
Step1Succeeded ==
    \/ action = "step1" /\ outcome = "ok"
    \/ action = "chain" /\ outcome = "ok"
    \/ action = "chain" /\ outcome = "SendError" /\ Len(Sends) >= 2

\* msg holds a block labeled STEP 1 OUTPUT with t1 in it, then a block labeled
\* STEP 2 OUTPUT with t2 in it, then the instruction p3
HasLayout(msg, t1, t2, p3) ==
    \E i, j, k \in 1..Len(msg) :
        /\ msg[i] = Step1Label
        /\ j = i + Len(t1) + 1
        /\ SubSeq(msg, i + 1, j - 1) = t1
        /\ msg[j] = Step2Label
        /\ j + Len(t2) < k
        /\ SubSeq(msg, j + 1, j + Len(t2)) = t2
        /\ k + Len(p3) - 1 <= Len(msg)
        /\ SubSeq(msg, k, k + Len(p3) - 1) = p3

-----------------------------------------------------------------------------
(* Claims *)

\* C1 (as stated): a successful Manual run of Step i leaves the result of every
\* step j > i absent.
C1_InvalidationLaw ==
    /\ (action = "step1" /\ outcome = "ok")
          => (step2_result = None /\ step3_result = None)
    /\ (action = "step2" /\ outcome = "ok") => step3_result = None

\* C2: Step 2 run with no Step 1 result, and Step 3 run with no Step 2 result,
\* end with PrerequisiteMissing, send nothing, and leave the session handle and
\* the three result slots as they were.
C2_PrerequisiteGating ==
    /\ (action = "step2" /\ entry.step1_result = None)
          => (outcome = "PrerequisiteMissing" /\ events = <<>> /\ Snapshot = entry)
    /\ (action = "step3" /\ entry.step2_result = None)
          => (outcome = "PrerequisiteMissing" /\ events = <<>> /\ Snapshot = entry)

\* C2 witness: Step 3 was pressed with a session and a Step 1 result stored but
\* no Step 2 result, and was refused.
C2_Witness ==
    /\ action = "step3"
    /\ entry.chat_session # None
    /\ entry.step1_result # None
    /\ entry.step2_result = None
    /\ outcome = "PrerequisiteMissing"

\* C3: in every reachable state Step 3's result is present only if Step 2's is,
\* and Step 2's only if Step 1's is.
C3_ChainOrder ==
    /\ step3_result # None => step2_result # None
    /\ step2_result # None => step1_result # None

\* C3 witness: a Step 1 re-run has just replaced its result while the Step 2 and
\* Step 3 results are stored.
C3_Witness ==
    /\ action = "step1"
    /\ outcome = "ok"
    /\ entry.step1_result # None
    /\ step2_result # None
    /\ step3_result # None

\* C4 (as stated): Reset leaves the session handle and the three results
\* absent, and the first successful Step 1 run after it (Manual or Automatic)
\* itself calls init_gemini before it sends anything.  No Step 1 has succeeded
\* since the last reset exactly when step1_result is None on entry.
C4_ResetThenInitOriginal ==
    /\ action = "reset" => AllAbsent
    /\ (action \in {"step1", "chain"} /\ entry.step1_result = None
            /\ Step1Succeeded)
          => events[1].kind = "init"

\* C4 (amended): Reset leaves the session handle and the three results absent;
\* no run other than a Step 1 or full-chain run changes the session handle, so
\* the first of those after a reset finds none stored; and a Step 1 run (Manual
\* or Automatic) that finds no session stored and passes the key/file check
\* calls init_gemini before anything is sent, every message of that run going
\* to the conversation just created, which is the one stored.
C4_ResetThenInit ==
    /\ action = "reset" => AllAbsent
    /\ action \in {"input", "toggle", "step2", "step3"}
          => chat_session = entry.chat_session
    /\ (action \in {"step1", "chain"} /\ entry.chat_session = None
            /\ outcome # "SessionUnavailable")
          => /\ Len(events) >= 1
             /\ events[1].kind = "init"
             /\ \A i \in 2..Len(events) :
                  /\ events[i].kind = "send"
                  /\ events[i].sid = nsessions
                  /\ chat_session # None
                  /\ chat_session[1].id = nsessions

\* C4 witness: a Step 1 run succeeded on a second conversation, created after
\* a reset had dropped the first one.
C4_Witness ==
    /\ action = "step1"
    /\ outcome = "ok"
    /\ entry.chat_session = None
    /\ Len(events) = 2
    /\ events[2].sid = 2

\* C5 (as stated): after a run that failed in init_gemini or in send_message
\* the session handle and the three result slots are what they were before it.
C5_FailureLeavesStateOriginal ==
    (pc = "idle" /\ outcome \in {"ConnectionError", "SendError"})
        => Snapshot = entry

\* C5 (amended): a failed init_gemini leaves the session handle and the three
\* result slots as they were.  A failed send_message leaves the slot of the
\* failing step and of every later step as it was (in a full-chain run the
\* steps before the failing one have stored their results), and leaves the
\* session handle as it was unless this run created the session, which then
\* stays stored.
C5_FailureFrame ==
    /\ (pc = "idle" /\ outcome = "ConnectionError") => Snapshot = entry
    /\ (pc = "idle" /\ outcome = "SendError") =>
          /\ \/ chat_session = entry.chat_session
             \/ /\ entry.chat_session = None
                /\ events[1].kind = "init"
                /\ chat_session # None
          /\ step3_result = entry.step3_result
          /\ (action # "chain" \/ Len(Sends) <= 2)
                => step2_result = entry.step2_result
          /\ (action # "chain" \/ Len(Sends) <= 1)
                => step1_result = entry.step1_result

\* C5 witness: a full-chain run over stored results failed at Step 2.
C5_Witness ==
    /\ pc = "idle"
    /\ action = "chain"
    /\ outcome = "SendError"
    /\ Len(Sends) = 2
    /\ entry.step2_result # None
    /\ entry.step3_result # None

\* C6 (as stated): once a different document is uploaded, no step sends its
\* message on a session that was seeded with the previous document: every
\* message of a run goes to a session seeded with the document uploaded now.
C6_SessionPerDocument ==
    \A i \in 1..Len(events) :
        (events[i].kind = "send" /\ uploaded_file # None)
            => events[i].doc = uploaded_file[1]

\* C7 (as stated): a session handle is stored only when the uploaded document
\* reached the ready state; a document reported FAILED gives no session.
C7_RejectedDocument ==
    chat_session # None => chat_session[1].docState = "ACTIVE"

\* C8 (as stated): a Step 1 run (Manual or Automatic) ends with
\* SessionUnavailable only when no session is stored and the key or the
\* document is missing; with a session stored it proceeds.
C8_Step1Precondition ==
    (action \in {"step1", "chain"} /\ outcome = "SessionUnavailable")
        => (entry.chat_session = None /\ ~HasKeyAndFile)

\* C9 (as stated): in Manual and in Automatic mode the Step 3 message holds a
\* block labeled STEP 1 OUTPUT with Step 1's stored result, then a block
\* labeled STEP 2 OUTPUT with Step 2's stored result, then the Step 3
\* instruction.
C9_Step3Layout ==
    Step3Sent => HasLayout(Step3Message, Fmt(step1_result), Fmt(step2_result),
                           Step3Prompt)

\* C10 (as stated): the Step 3 message is a function of Step 1's result, Step
\* 2's result and the Step 3 prompt alone, whatever the mode.  Each mode builds
\* its message from these three by one template, so two invocations with equal
\* inputs differ exactly when the templates do: the message sent here is the
\* message either mode sends for the same three inputs.  The inputs both modes
\* can be given are compared: the default prompt (the only one Automatic mode
\* uses) and a non-empty Step 2 result (the only kind Manual Step 3 accepts).
C10_Step3Deterministic ==
    (Step3Sent /\ Step3Prompt = default_p3 /\ Truthy(step2_result))
        => /\ Step3Message
                = AutoFinalInput(step1_result, step2_result, default_p3)
           /\ Step3Message
                = ManualFinalInput(step1_result, step2_result, default_p3)

\* the init_gemini calls of this run
Inits == SelectSeq(events, LAMBDA e : e.kind = "init")

\* C11 (as stated): in a full-chain run, once Step i has stored its result the
\* results of the later steps left from an earlier run are cleared before Step
\* i+1 is tried, so a run that fails at Step 2 or Step 3 (its second or third
\* send_message) leaves no Step 3 result stored.
C11_ChainInvalidates ==
    (action = "chain" /\ outcome = "SendError" /\ Len(Sends) >= 2)
        => step3_result = None

\* C12: a full-chain run with key and document given in which no remote call
\* fails ends successfully, having made at most one init_gemini call, before
\* anything else, and then exactly three send_message calls on the stored
\* session: the Step 1 prompt, the Step 2 prompt, the Step 3 message in this
\* order; the three result slots hold the texts the three calls returned.
C12_AutomaticEndToEnd ==
    (action = "chain" /\ pc = "idle" /\ HasKeyAndFile
         /\ outcome \notin {"ConnectionError", "SendError"}) =>
        /\ outcome = "ok"
        /\ Len(Inits) <= 1
        /\ Len(Inits) = 1 => events[1].kind = "init"
        /\ Len(Sends) = 3
        /\ \A i \in 1..3 : Sends[i].sid = chat_session[1].id
        /\ Sends[1].msg = default_p1
        /\ Sends[2].msg = default_p2
        /\ HasLayout(Sends[3].msg, Fmt(step1_result), Fmt(step2_result),
                     default_p3)
        /\ Sends[1].msg # Sends[3].msg /\ Sends[2].msg # Sends[3].msg
        /\ step1_result # None /\ step1_result = Sends[1].reply
        /\ step2_result # None /\ step2_result = Sends[2].reply
        /\ step3_result # None /\ step3_result = Sends[3].reply

\* C12 witness: a full-chain run that had to initialise the session went
\* through, with different texts returned for Step 1 and Step 2.
C12_Witness ==
    /\ action = "chain"
    /\ outcome = "ok"
    /\ Len(Inits) = 1
    /\ Len(Sends) = 3
    /\ step1_result # step2_result

\* C13: the message of Step 1 and of Step 2, in Manual and in Automatic mode,
\* is exactly that step's prompt: no stored result is put in front of it or
\* after it.
C13_ContinuationSendsPrompt ==
    /\ (action \in {"step1", "step2"} /\ Len(Sends) >= 1)
          => (Len(Sends) = 1 /\ Sends[1].msg = prompt)
    /\ (action = "chain" /\ Len(Sends) >= 1) => Sends[1].msg = default_p1
    /\ (action = "chain" /\ Len(Sends) >= 2) => Sends[2].msg = default_p2

\* C13 witness: Manual Step 2 sent an edited prompt while a Step 1 result was
\* stored.
C13_Witness ==
    /\ action = "step2"
    /\ Len(Sends) = 1
    /\ prompt # default_p2
    /\ Truthy(step1_result)

\* C14: init_gemini is called only by a run that found no session stored; a
\* stored session is replaced by no run (only Reset removes it); at most one
\* conversation is started between two resets, and every message goes to the
\* stored one.
C14_SessionReuse ==
    /\ Len(Inits) >= 1 => entry.chat_session = None
    /\ (entry.chat_session # None /\ action # "reset")
          => chat_session = entry.chat_session
    /\ created <= 1
    /\ chat_session # None => created = 1
    /\ \A i \in 1..Len(Sends) :
          chat_session # None /\ Sends[i].sid = chat_session[1].id

\* C14 witness: the full chain was re-run on the session an earlier run had
\* stored, after a reset had already dropped another one.
C14_Witness ==
    /\ action = "chain"
    /\ entry.chat_session # None
    /\ entry.step1_result # None
    /\ Len(Sends) = 3
    /\ nsessions = 2
    /\ created = 1

\* C15: inside init_gemini, while the document is PROCESSING the run stays in
\* the poll loop and starts no conversation (the only other way out is
\* get_file raising: there is no timeout); once the document is in any other
\* state, ACTIVE or FAILED, no further poll is made and the next step is the
\* return with a conversation; and if the service does not report PROCESSING
\* for ever, every init_gemini call ends.
C15_PollLoop ==
    /\ [][(pc = "init" /\ docState = "PROCESSING")
            => /\ nsessions' = nsessions
               /\ pc' = "init" \/ outcome' = "ConnectionError"]_vars
    /\ [][(pc = "init" /\ docState # "PROCESSING")
            => (pc' = "idle" /\ nsessions' = nsessions + 1)]_vars
    /\ (pc = "init") ~> (pc = "idle")

\* C15 witness: a poll has seen the document leave PROCESSING for FAILED and
\* the call has not returned yet.
C15_Witness ==
    /\ pc = "init"
    /\ outcome = "polled"
    /\ docState = "FAILED"

\* C16: one run makes at most one init_gemini call and at most one
\* send_message call per step (one for a Manual step, three for the full
\* chain, none without a button); after a failed init_gemini nothing is sent,
\* and a send_message that raised is the last call of the run.
C16_NoRetries ==
    /\ Len(Inits) <= 1
    /\ action \in {"step1", "step2", "step3"} => Len(Sends) <= 1
    /\ action = "chain" => Len(Sends) <= 3
    /\ action \notin {"step1", "step2", "step3", "chain"} => events = <<>>
    /\ outcome = "ConnectionError" => (Len(Inits) = 1 /\ Len(Sends) = 0)
    /\ \A i \in 1..Len(events) :
          (events[i].kind = "send" /\ events[i].reply = None)
              => i = Len(events)

\* C16 witness: a Step 1 run initialised the session, its send_message raised,
\* and the run ended there.
C16_Witness ==
    /\ action = "step1"
    /\ outcome = "SendError"
    /\ Len(Inits) = 1
    /\ Len(Sends) = 1

\* C17: whenever a result slot is present a session handle is stored, so a
\* Step 2 or Step 3 run that passes its prerequisite check finds a session and
\* sends on it.
C17_ResultsImplySession ==
    /\ (step1_result # None \/ step2_result # None \/ step3_result # None)
          => chat_session # None
    /\ (action \in {"step2", "step3"} /\ outcome \in {"ok", "SendError"})
          => /\ entry.chat_session # None
             /\ Len(Sends) = 1
             /\ Sends[1].sid = entry.chat_session[1].id

\* C17 witness: Step 3 passed its check and sent on the stored session.
C17_Witness ==
    /\ action = "step3"
    /\ outcome = "ok"
    /\ Len(Sends) = 1

\* C18 (as stated): after a successful run of Step 1 the prerequisite check of
\* Step 2 passes, and after a successful run of Step 2 that of Step 3, whatever
\* text was returned, the empty text included.
C18_CompletionEnablesNext ==
    /\ Step1Succeeded => ~Step2Blocked
    /\ (action = "step2" /\ outcome = "ok") => ~Step3Blocked

\* C19 (as stated): a mode toggle changes neither the session handle nor a
\* result slot; after a successful full-chain run the prerequisite checks of
\* Manual Step 2 and Step 3 pass; and Manual Step 2 and Step 3 send on the
\* session they found stored.
C19_ModeToggleFrame ==
    /\ action = "toggle" => Snapshot = entry
    /\ (action = "chain" /\ outcome = "ok") => (~Step2Blocked /\ ~Step3Blocked)
    /\ action \in {"step2", "step3"}
          => \A i \in 1..Len(Sends) :
                /\ entry.chat_session # None
                /\ Sends[i].sid = entry.chat_session[1].id

====
